---- MODULE Spec2Model ----
(***************************************************************************)
(* Rainfall Q&A: the parse -> execute -> cite pipeline of query_parser.py, *)
(* data_analyzer.py and answer_generator.py, with the loader and the       *)
(* caller's session of app.py.                                             *)
(*                                                                         *)
(* Representation.                                                         *)
(*  - A string is a TLA+ string; Python's `p in q` is Contains(q, p).      *)
(*  - A cell is <<>> (NaN / <NA>) or <<v>>.                                *)
(*  - A DataFrame is [columns, dtypes, index, rows]: index holds the row   *)
(*    labels, rows[i] the cells of the i-th row in column order.           *)
(*  - A float mean is the exact pair [sum, n] (the quotient sum/n, NaN     *)
(*    when n = 0); rounding of floats is not modelled.                     *)
(*  - A raised exception is the value [raised |-> <exception name>].       *)
(***************************************************************************)
EXTENDS Integers, Sequences, FiniteSets, TLC

VARIABLES df, question, parsed_query, results, answer_data, chat_history, pc

vars == <<df, question, parsed_query, results, answer_data, chat_history, pc>>

(***************************************************************************)
(* Strings                                                                 *)
(***************************************************************************)

\* Python: p in q
Contains(q, p) ==
    \E i \in 1..(Len(q) - Len(p) + 1) : SubSeq(q, i, i + Len(p) - 1) = p

\* any(p in q for p in patterns), patterns a sequence
AnyIn(patterns, q) == \E k \in 1..Len(patterns) : Contains(q, patterns[k])

UpperChars == "ABCDEFGHIJKLMNOPQRSTUVWXYZ"
LowerChars == "abcdefghijklmnopqrstuvwxyz"
DigitChars == "0123456789"

\* s[i-1:i]: the character at position i, "" outside the string
CharAt(s, i) == IF i >= 1 /\ i <= Len(s) THEN SubSeq(s, i, i) ELSE ""

\* the characters of s as a set
Chars(s) == {SubSeq(s, i, i) : i \in 1..Len(s)}

UpperSet == Chars(UpperChars)
DigitSet == Chars(DigitChars)
LetterSet == UpperSet \cup Chars(LowerChars)

LowerOf ==
    [c \in UpperSet |->
        SubSeq(LowerChars, CHOOSE i \in 1..Len(UpperChars) : SubSeq(UpperChars, i, i) = c,
                           CHOOSE i \in 1..Len(UpperChars) : SubSeq(UpperChars, i, i) = c)]

LowerChar(c) == IF c \in UpperSet THEN LowerOf[c] ELSE c

RECURSIVE Lower(_)
\* str.lower()
Lower(s) ==
    IF s = "" THEN "" ELSE LowerChar(CharAt(s, 1)) \o Lower(SubSeq(s, 2, Len(s)))

RECURSIVE Concat(_)
\* ''.join(parts)
Concat(parts) ==
    IF parts = <<>> THEN "" ELSE Head(parts) \o Concat(Tail(parts))

(***************************************************************************)
(* Sequences                                                               *)
(***************************************************************************)

RECURSIVE SelectPos(_, _, _)
\* the positions i in k..n with keep[i], ascending
SelectPos(keep, k, n) ==
    IF k > n THEN <<>>
    ELSE IF keep[k] THEN <<k>> \o SelectPos(keep, k + 1, n)
    ELSE SelectPos(keep, k + 1, n)

SeqMember(x, s) == \E k \in 1..Len(s) : s[k] = x

RECURSIVE SortedSeq(_)
\* sorted(list(S)) of a finite set of integers
SortedSeq(S) ==
    IF S = {} THEN <<>>
    ELSE LET m == CHOOSE x \in S : \A y \in S : x <= y
         IN <<m>> \o SortedSeq(S \ {m})

RECURSIVE Unique(_)
\* Series.unique(): first occurrences, in order
Unique(s) ==
    IF s = <<>> THEN <<>>
    ELSE LET r == Unique(SubSeq(s, 1, Len(s) - 1))
             x == s[Len(s)]
         IN IF SeqMember(x, r) THEN r ELSE Append(r, x)

Range(s) == {s[k] : k \in 1..Len(s)}

RECURSIVE Flatten(_)
\* the concatenation of a sequence of sequences
Flatten(ss) == IF ss = <<>> THEN <<>> ELSE Head(ss) \o Flatten(Tail(ss))

(***************************************************************************)
(* Tables                                                                  *)
(***************************************************************************)

Null == <<>>
IsNull(c) == c = <<>>
NotNa(c) == c # <<>>

HasCol(t, c) == SeqMember(c, t.columns)
ColPos(t, c) == CHOOSE i \in 1..Len(t.columns) : t.columns[i] = c
NRows(t) == Len(t.rows)
\* t[c] as the sequence of its cells in row order
Column(t, c) == [i \in 1..NRows(t) |-> t.rows[i][ColPos(t, c)]]
DType(t, c) == t.dtypes[ColPos(t, c)]
\* pd.api.types.is_numeric_dtype / select_dtypes(include=['number'])
IsNumericDType(d) == d \in {"int64", "Int64", "float64"}

\* t[mask]: the rows at the positions pos, with their labels
TakeRows(t, pos) ==
    [t EXCEPT !.index = [k \in 1..Len(pos) |-> t.index[pos[k]]],
              !.rows = [k \in 1..Len(pos) |-> t.rows[pos[k]]]]

Raised(exc) == [raised |-> exc]
IsRaised(x) == "raised" \in DOMAIN x

(***************************************************************************)
(* QueryParser (query_parser.py)                                           *)
(***************************************************************************)

\* self.intent_patterns: a dict, iterated in insertion order
intent_patterns ==
    << [intent |-> "compare", patterns |-> <<"compare", "difference between", "vs", "versus">>],
       [intent |-> "maximum", patterns |-> <<"highest", "maximum", "max", "most", "greatest", "largest">>],
       [intent |-> "minimum", patterns |-> <<"lowest", "minimum", "min", "least", "smallest">>],
       [intent |-> "average", patterns |-> <<"average", "mean", "avg">>],
       [intent |-> "sum", patterns |-> <<"total", "sum", "combined">>],
       [intent |-> "trend", patterns |-> <<"trend", "pattern", "over time", "change">>],
       [intent |-> "list", patterns |-> <<"list", "show", "display", "what are">>],
       [intent |-> "count", patterns |-> <<"how many", "count", "number of">>] >>

month_names ==
    << "january", "february", "march", "april", "may", "june",
       "july", "august", "september", "october", "november", "december",
       "jan", "feb", "mar", "apr", "may", "jun", "jul", "aug", "sep", "oct", "nov", "dec" >>

season_names == <<"monsoon", "winter", "summer", "spring", "autumn", "fall">>

state_keywords == <<"state", "region", "district", "area", "location">>
year_keywords == <<"year", "yr">>
month_keywords == <<"month", "mon">>
rainfall_keywords == <<"rainfall", "rain", "precipitation", "mm", "millimeter">>
temperature_keywords == <<"temperature", "temp", "celsius", "fahrenheit">>

RECURSIVE ExtractIntentFrom(_, _)
\* the loop of _extract_intent from the k-th entry of intent_patterns on
ExtractIntentFrom(k, q) ==
    IF k > Len(intent_patterns) THEN "query"
    ELSE IF AnyIn(intent_patterns[k].patterns, q) THEN intent_patterns[k].intent
    ELSE ExtractIntentFrom(k + 1, q)

RECURSIVE ExtractIntentLast(_, _)
\* the loop run from the last entry of intent_patterns down to the first
ExtractIntentLast(k, q) ==
    IF k < 1 THEN "query"
    ELSE IF AnyIn(intent_patterns[k].patterns, q) THEN intent_patterns[k].intent
    ELSE ExtractIntentLast(k - 1, q)

\* _extract_intent returning the last intent of the table that matches
_extract_intent_last(q) == ExtractIntentLast(Len(intent_patterns), q)

\* _extract_intent with 'general' as the default intent
_extract_intent_general(q) ==
    IF ExtractIntentFrom(1, q) = "query" THEN "general" ELSE ExtractIntentFrom(1, q)

_extract_intent(q) == ExtractIntentFrom(1, q)

\* [col for col in df.columns if any(k in str(col).lower() for k in keywords)]
_find_columns_by_keywords(t, keywords) ==
    LET Match(col) == AnyIn(keywords, Lower(col))
    IN SelectSeq(t.columns, Match)

\* df[col].dropna().unique()
UniqueValues(t, c) ==
    LET col == Column(t, c)
        pos == SelectPos([i \in 1..Len(col) |-> NotNa(col[i])], 1, Len(col))
    IN Unique([k \in 1..Len(pos) |-> col[pos[k]][1]])

_extract_entities(q, t) ==
    LET state_columns == _find_columns_by_keywords(t, state_keywords)
        InQuestion(w) == Contains(q, w)
        StateInQuestion(state) == Contains(q, Lower(state))
    IN [states |-> IF state_columns # <<>>
                   THEN SelectSeq(UniqueValues(t, state_columns[1]), StateInQuestion)
                   ELSE <<>>,
        months |-> SelectSeq(month_names, InQuestion),
        seasons |-> SelectSeq(season_names, InQuestion)]

\* The en dash U+2013 of the range pattern; the module's strings are ASCII,
\* so the character is written "~" here and in the questions.
EnDash == "~"

IsDigit(c) == c \in DigitSet
IsLetter(c) == c \in LetterSet
\* \w
IsWordChar(c) == IsDigit(c) \/ IsLetter(c) \/ c = "_"
\* \s
IsSpace(c) == c \in {" ", "\t", "\n"}

WordAt(s, i) == i >= 1 /\ i <= Len(s) /\ IsWordChar(CharAt(s, i))
\* \b between the characters i-1 and i
Boundary(s, i) == WordAt(s, i - 1) # WordAt(s, i)

\* (19\d{2}|20\d{2}|21\d{2}) at position i
YearAt(s, i) ==
    /\ i >= 1 /\ i + 3 <= Len(s)
    /\ SubSeq(s, i, i + 1) \in {"19", "20", "21"}
    /\ IsDigit(CharAt(s, i + 2))
    /\ IsDigit(CharAt(s, i + 3))

DigitVal(c) == (CHOOSE i \in 1..Len(DigitChars) : CharAt(DigitChars, i) = c) - 1

RECURSIVE StrToInt(_)
\* int(y) of a string of digits
StrToInt(s) ==
    IF s = "" THEN 0
    ELSE 10 * StrToInt(SubSeq(s, 1, Len(s) - 1)) + DigitVal(CharAt(s, Len(s)))

\* \b(19\d{2}|20\d{2}|21\d{2})\b matches at i
YearMatchAt(s, i) == Boundary(s, i) /\ YearAt(s, i) /\ Boundary(s, i + 4)

RECURSIVE FindYears(_, _)
\* re.findall of the year pattern, scanning from i: leftmost match, then on from its end
FindYears(s, i) ==
    IF i > Len(s) THEN <<>>
    ELSE IF YearMatchAt(s, i)
         THEN <<StrToInt(SubSeq(s, i, i + 3))>> \o FindYears(s, i + 4)
         ELSE FindYears(s, i + 1)

RECURSIVE SkipSpaces(_, _)
\* \s* (greedy) from i: the first position that holds no whitespace
SkipSpaces(s, i) ==
    IF i <= Len(s) /\ IsSpace(CharAt(s, i)) THEN SkipSpaces(s, i + 1) ELSE i

\* (?:to|-|EnDash) at i: the position after it, 0 when none is there
AfterSep(s, i) ==
    IF i >= 1 /\ i + 1 <= Len(s) /\ SubSeq(s, i, i + 1) = "to" THEN i + 2
    ELSE IF i <= Len(s) /\ CharAt(s, i) \in {"-", EnDash} THEN i + 1
    ELSE 0

\* the range pattern matched at i: the position after the match, 0 when it does not match
RangeMatchEnd(s, i) ==
    IF Boundary(s, i) /\ YearAt(s, i)
    THEN LET k == AfterSep(s, SkipSpaces(s, i + 4))
             m == SkipSpaces(s, k)
         IN IF k # 0 /\ YearAt(s, m) /\ Boundary(s, m + 4) THEN m + 4 ELSE 0
    ELSE 0

RECURSIVE FindRanges(_, _)
\* re.findall of the range pattern, scanning from i: (start, end) of each match
FindRanges(s, i) ==
    IF i > Len(s) THEN <<>>
    ELSE LET e == RangeMatchEnd(s, i)
         IN IF e # 0
            THEN << <<StrToInt(SubSeq(s, i, i + 3)), StrToInt(SubSeq(s, e - 4, e - 1))>> >>
                     \o FindRanges(s, e)
            ELSE FindRanges(s, i + 1)

\* _extract_years returning the list as collected, without sorted(list(set(years)))
_extract_years_raw(q) ==
    LET year_matches == FindYears(q, 1)
        range_matches == FindRanges(q, 1)
    IN year_matches
         \o Flatten([k \in 1..Len(range_matches) |->
                SortedSeq(range_matches[k][1]..range_matches[k][2])])

_extract_years(q) ==
    LET year_matches == FindYears(q, 1)
        range_matches == FindRanges(q, 1)
        years == Range(year_matches)
                   \cup UNION {range_matches[k][1]..range_matches[k][2] : k \in 1..Len(range_matches)}
    IN SortedSeq(years)

\* df.select_dtypes(include=['number']).columns.tolist()
NumericCols(t) ==
    LET Num(c) == IsNumericDType(DType(t, c))
    IN SelectSeq(t.columns, Num)

_extract_metrics(q, t) ==
    LET numeric_cols == NumericCols(t)
        Selected(col) ==
            LET col_lower == Lower(col)
            IN IF Contains(q, col_lower) THEN TRUE
               ELSE IF AnyIn(rainfall_keywords, col_lower) THEN AnyIn(rainfall_keywords, q)
               ELSE IF AnyIn(temperature_keywords, col_lower) THEN AnyIn(temperature_keywords, q)
               ELSE FALSE
        metrics == SelectSeq(numeric_cols, Selected)
    IN IF metrics = <<>> THEN numeric_cols ELSE metrics

parse(q, t) ==
    LET question_lower == Lower(q)
        entities == _extract_entities(question_lower, t)
        years == _extract_years(question_lower)
        keys == {k \in {"states", "months", "seasons"} : entities[k] # <<>>}
                  \cup (IF years # <<>> THEN {"years"} ELSE {})
    IN [original_question |-> q,
        intent |-> _extract_intent(question_lower),
        entities |-> entities,
        years |-> years,
        metrics |-> _extract_metrics(question_lower, t),
        filters |-> [k \in keys |-> IF k = "years" THEN years ELSE entities[k]]]

(***************************************************************************)
(* DataAnalyzer (data_analyzer.py)                                         *)
(***************************************************************************)

\* __init__: self.df = df.copy(); self.df.reset_index(drop=True, inplace=True)
DataAnalyzer(t) == [t EXCEPT !.index = [i \in 1..NRows(t) |-> i - 1]]

\* [col for col in self.df.columns if any(k in col.lower() for k in keywords)]
FindRoleColumns(t, keywords) ==
    LET Match(col) == AnyIn(keywords, Lower(col))
    IN SelectSeq(t.columns, Match)

\* _find_state_columns looking for the keyword 'state' alone
_find_state_columns_named(t) == FindRoleColumns(t, <<"state">>)

_find_state_columns(t) == FindRoleColumns(t, state_keywords)
_find_year_columns(t) == FindRoleColumns(t, year_keywords)
_find_month_columns(t) == FindRoleColumns(t, month_keywords)

\* 'k' in filters and filters['k']
HasFilter(filters, k) == k \in DOMAIN filters /\ filters[k] # <<>>

\* FilterIsIn with the result renumbered 0, 1, ... (a reset_index after the selection)
FilterIsIn_renumbered(t, c, values) ==
    LET col == Column(t, c)
        keep == [i \in 1..NRows(t) |-> NotNa(col[i]) /\ SeqMember(col[i][1], values)]
        sel == TakeRows(t, SelectPos(keep, 1, NRows(t)))
    IN [sel EXCEPT !.index = [k \in 1..NRows(sel) |-> k - 1]]

\* df[df[c].isin(values)]
FilterIsIn(t, c, values) ==
    LET col == Column(t, c)
        keep == [i \in 1..NRows(t) |-> NotNa(col[i]) /\ SeqMember(col[i][1], values)]
    IN TakeRows(t, SelectPos(keep, 1, NRows(t)))

\* df[df[c].str.lower().isin([m.lower() for m in values])]
FilterLowerIsIn(t, c, values) ==
    LET col == Column(t, c)
        lowered == [k \in 1..Len(values) |-> Lower(values[k])]
        keep == [i \in 1..NRows(t) |-> NotNa(col[i]) /\ SeqMember(Lower(col[i][1]), lowered)]
    IN TakeRows(t, SelectPos(keep, 1, NRows(t)))

\* the table self.df narrowed by the filters, or the exception of the .str
\* accessor on a month column that does not hold strings
_apply_filters(self_df, filters) ==
    LET state_cols == _find_state_columns(self_df)
        year_cols == _find_year_columns(self_df)
        month_cols == _find_month_columns(self_df)
        df1 == IF HasFilter(filters, "states") /\ state_cols # <<>>
               THEN FilterIsIn(self_df, state_cols[1], filters["states"])
               ELSE self_df
        df2 == IF HasFilter(filters, "years") /\ year_cols # <<>>
               THEN FilterIsIn(df1, year_cols[1], filters["years"])
               ELSE df1
    IN IF HasFilter(filters, "months") /\ month_cols # <<>>
       THEN IF DType(df2, month_cols[1]) # "object"
            THEN Raised("AttributeError")
            ELSE FilterLowerIsIn(df2, month_cols[1], filters["months"])
       ELSE df2

RECURSIVE SumCells(_)
\* Series.sum(): the sum of the cells that are not null
SumCells(cells) ==
    IF cells = <<>> THEN 0
    ELSE (IF NotNa(Head(cells)) THEN Head(cells)[1] ELSE 0) + SumCells(Tail(cells))

CountCells(cells) == Cardinality({i \in 1..Len(cells) : NotNa(cells[i])})

\* Series.mean(): sum / n over the cells that are not null, NaN when n = 0
MeanCells(cells) == [sum |-> SumCells(cells), n |-> CountCells(cells)]
IsNaN(m) == m.n = 0

\* Series.max() / Series.min(): a cell, null when every cell is null
MaxCell(cells) ==
    LET S == {cells[i][1] : i \in {j \in 1..Len(cells) : NotNa(cells[j])}}
    IN IF S = {} THEN Null ELSE <<CHOOSE x \in S : \A y \in S : y <= x>>

MinCell(cells) ==
    LET S == {cells[i][1] : i \in {j \in 1..Len(cells) : NotNa(cells[j])}}
    IN IF S = {} THEN Null ELSE <<CHOOSE x \in S : \A y \in S : x <= y>>

\* Series.idxmax(): the position of the first cell holding the maximum, 0 when every cell is null
IdxMax(cells) ==
    LET m == MaxCell(cells)
    IN IF m = Null THEN 0 ELSE CHOOSE i \in 1..Len(cells) :
           cells[i] = m /\ \A j \in 1..(i - 1) : cells[j] # m

\* Series.idxmin()
IdxMin(cells) ==
    LET m == MinCell(cells)
    IN IF m = Null THEN 0 ELSE CHOOSE i \in 1..Len(cells) :
           cells[i] = m /\ \A j \in 1..(i - 1) : cells[j] # m

Bundle(type, data) == [type |-> type, data |-> data, citations |-> <<>>]

\* df[df[c] == v]
FilterEq(t, c, v) ==
    LET col == Column(t, c)
        keep == [i \in 1..NRows(t) |-> NotNa(col[i]) /\ col[i][1] = v]
    IN TakeRows(t, SelectPos(keep, 1, NRows(t)))

RECURSIVE CompareLoop(_, _, _, _, _)
\* the loop of _compare_entities over filters['states'] from the k-th state on:
\* [error, data], error the exception that ends the loop ("" when none does)
CompareLoop(t, state_col, metric, states, k) ==
    IF k > Len(states) THEN [error |-> "", data |-> <<>>]
    ELSE LET state_data == FilterEq(t, state_col, states[k])
             rest == CompareLoop(t, state_col, metric, states, k + 1)
         IN IF NRows(state_data) > 0
            THEN IF ~HasCol(t, metric) THEN [error |-> "KeyError", data |-> <<>>]
                 ELSE IF ~IsNumericDType(DType(t, metric)) THEN [error |-> "TypeError", data |-> <<>>]
                 ELSE [rest EXCEPT !.data =
                          << [entity |-> states[k],
                              metric |-> metric,
                              value |-> MeanCells(Column(state_data, metric)),
                              row_index |-> state_data.index[1],
                              count |-> NRows(state_data)] >> \o @]
            ELSE rest

\* _compare_entities looking for each region's rows in the whole table self.df
_compare_entities_all(self_df, t, filters, metrics) ==
    LET state_cols == _find_state_columns(self_df)
    IN IF state_cols = <<>> \/ metrics = <<>> THEN Bundle("comparison", <<>>)
       ELSE IF HasFilter(filters, "states")
            THEN Bundle("comparison",
                        CompareLoop(self_df, state_cols[1], metrics[1], filters["states"], 1).data)
            ELSE Bundle("comparison", <<>>)

_compare_entities(self_df, t, filters, metrics) ==
    LET state_cols == _find_state_columns(self_df)
    IN IF state_cols = <<>> \/ metrics = <<>> THEN Bundle("comparison", <<>>)
       ELSE IF metrics[1] = "" THEN Bundle("comparison", <<>>)
       ELSE IF HasFilter(filters, "states")
            THEN LET loop == CompareLoop(t, state_cols[1], metrics[1], filters["states"], 1)
                 IN IF loop.error # "" THEN Raised(loop.error) ELSE Bundle("comparison", loop.data)
            ELSE Bundle("comparison", <<>>)

\* entity_info of _find_maximum/_find_minimum: the region and year cells of the row at position i
EntityInfo(self_df, t, i) ==
    LET state_cols == _find_state_columns(self_df)
        year_cols == _find_year_columns(self_df)
        keys == (IF state_cols # <<>> THEN {"state"} ELSE {})
                  \cup (IF year_cols # <<>> THEN {"year"} ELSE {})
    IN [k \in keys |-> IF k = "state" THEN Column(t, state_cols[1])[i]
                                       ELSE Column(t, year_cols[1])[i]]

\* the body shared by _find_maximum and _find_minimum; idx is the result of idxmax/idxmin
FindExtremum(self_df, t, metrics, type, idx) ==
    IF metrics = <<>> \/ NRows(t) = 0 THEN Bundle(type, <<>>)
    ELSE IF ~HasCol(t, metrics[1]) THEN Bundle(type, <<>>)
    ELSE IF ~IsNumericDType(DType(t, metrics[1])) THEN Raised("TypeError")
    \* every cell is null: idxmax raises ValueError, or returns NaN and .loc raises KeyError
    ELSE IF idx = 0 THEN Raised("ValueError")
    ELSE Bundle(type, << [metric |-> metrics[1],
                          value |-> Column(t, metrics[1])[idx][1],
                          row_index |-> t.index[idx],
                          entity_info |-> EntityInfo(self_df, t, idx)] >>)

_find_maximum(self_df, t, metrics) ==
    FindExtremum(self_df, t, metrics, "maximum",
                 IF metrics # <<>> /\ HasCol(t, metrics[1]) THEN IdxMax(Column(t, metrics[1])) ELSE 0)

_find_minimum(self_df, t, metrics) ==
    FindExtremum(self_df, t, metrics, "minimum",
                 IF metrics # <<>> /\ HasCol(t, metrics[1]) THEN IdxMin(Column(t, metrics[1])) ELSE 0)

\* the metrics the loops of _calculate_average, _calculate_sum and _general_query act on
UsableMetrics(t, metrics) ==
    LET Usable(m) == HasCol(t, m) /\ IsNumericDType(DType(t, m))
    IN SelectSeq(metrics, Usable)

_calculate_average(t, metrics) ==
    IF metrics = <<>> \/ NRows(t) = 0 THEN Bundle("average", <<>>)
    ELSE LET ms == UsableMetrics(t, metrics)
         IN Bundle("average", [k \in 1..Len(ms) |->
                [metric |-> ms[k],
                 value |-> MeanCells(Column(t, ms[k])),
                 count |-> NRows(t),
                 row_indices |-> t.index]])

\* _calculate_sum acting on the first candidate metric only
_calculate_sum_first(t, metrics) ==
    IF metrics = <<>> \/ NRows(t) = 0 THEN Bundle("sum", <<>>)
    ELSE LET ms == UsableMetrics(t, <<metrics[1]>>)
         IN Bundle("sum", [k \in 1..Len(ms) |->
                [metric |-> ms[k],
                 value |-> SumCells(Column(t, ms[k])),
                 count |-> NRows(t),
                 row_indices |-> t.index]])

_calculate_sum(t, metrics) ==
    IF metrics = <<>> \/ NRows(t) = 0 THEN Bundle("sum", <<>>)
    ELSE LET ms == UsableMetrics(t, metrics)
         IN Bundle("sum", [k \in 1..Len(ms) |->
                [metric |-> ms[k],
                 value |-> SumCells(Column(t, ms[k])),
                 count |-> NRows(t),
                 row_indices |-> t.index]])

\* df.groupby(year_col): the year values that are not null, ascending
YearGroups(t, year_col) == SortedSeq(Range(UniqueValues(t, year_col)))

_analyze_trend(self_df, t, metrics) ==
    LET year_cols == _find_year_columns(self_df)
    IN IF year_cols = <<>> \/ metrics = <<>> \/ NRows(t) = 0 THEN Bundle("trend", <<>>)
       ELSE IF ~HasCol(t, metrics[1]) THEN Bundle("trend", <<>>)
       ELSE IF ~IsNumericDType(DType(t, metrics[1])) THEN Raised("TypeError")
       ELSE IF metrics[1] = year_cols[1] THEN Raised("ValueError")
       ELSE LET groups == YearGroups(t, year_cols[1])
            IN Bundle("trend", [k \in 1..Len(groups) |->
                   LET rows == FilterEq(t, year_cols[1], groups[k])
                   IN [year |-> groups[k],
                       metric |-> metrics[1],
                       value |-> MeanCells(Column(rows, metrics[1])),
                       row_indices |-> rows.index]])

_count_records(t) ==
    Bundle("count", << [count |-> NRows(t), row_indices |-> t.index] >>)

_general_query(t, metrics) ==
    IF NRows(t) = 0 THEN Bundle("general", <<>>)
    ELSE LET ms == UsableMetrics(t, metrics)
         IN Bundle("general", [k \in 1..Len(ms) |->
                [metric |-> ms[k],
                 mean |-> MeanCells(Column(t, ms[k])),
                 min |-> MinCell(Column(t, ms[k])),
                 max |-> MaxCell(Column(t, ms[k])),
                 count |-> NRows(t),
                 row_indices |-> t.index]])

\* execute_query of the analyzer built on the caller's table t
execute_query(t, pq) ==
    LET self_df == DataAnalyzer(t)
        intent == pq.intent
        filters == pq.filters
        metrics == pq.metrics
        filtered_df == _apply_filters(self_df, filters)
    IN IF IsRaised(filtered_df) THEN filtered_df
       ELSE IF intent = "compare" THEN _compare_entities(self_df, filtered_df, filters, metrics)
       ELSE IF intent = "maximum" THEN _find_maximum(self_df, filtered_df, metrics)
       ELSE IF intent = "minimum" THEN _find_minimum(self_df, filtered_df, metrics)
       ELSE IF intent = "average" THEN _calculate_average(filtered_df, metrics)
       ELSE IF intent = "sum" THEN _calculate_sum(filtered_df, metrics)
       ELSE IF intent = "trend" THEN _analyze_trend(self_df, filtered_df, metrics)
       ELSE IF intent = "count" THEN _count_records(filtered_df)
       ELSE _general_query(filtered_df, metrics)

(***************************************************************************)
(* AnswerGenerator (answer_generator.py)                                   *)
(*                                                                         *)
(* An answer is kept as the sequence of its parts, each part a record      *)
(* naming the f-string it comes from and the values put into it; the       *)
(* formatting of numbers into text is not modelled.  A citation string is  *)
(* kept as the record of what it prints.                                   *)
(***************************************************************************)

InsufficientDataMessage ==
    "I couldn't find relevant data to answer this question. Please check if the data contains the required information."

\* sample_indices = row_indices[:3]
CitationSampleSize == 3
\* if len(context_cols) >= 3: break
ContextLimit == 3

LabelPos(t, row_idx) == CHOOSE i \in 1..NRows(t) : t.index[i] = row_idx

RECURSIVE ContextCols(_, _, _, _)
\* the loop of _create_citation over df.columns from the k-th column on, without its break
ContextCols(t, row, column, k) ==
    IF k > Len(t.columns) THEN <<>>
    ELSE IF t.columns[k] # column /\ NotNa(row[k])
         THEN LET rest == ContextCols(t, row, column, k + 1)
              IN <<[col |-> t.columns[k], val |-> row[k][1]]>> \o rest
         ELSE ContextCols(t, row, column, k + 1)

\* df.loc[row_idx, column] succeeds: the label and the column exist
CanLocate(t, row_idx, column) == SeqMember(row_idx, t.index) /\ HasCol(t, column)

\* _create_citation without the break of its context loop
_create_citation_all(row_idx, column, t) ==
    IF CanLocate(t, row_idx, column)
    THEN LET row == t.rows[LabelPos(t, row_idx)]
         IN [kind |-> "cell", row |-> row_idx, column |-> column,
             value |-> row[ColPos(t, column)],
             context |-> ContextCols(t, row, column, 1)]
    ELSE [kind |-> "position", row |-> row_idx, column |-> column]

_create_citation(row_idx, column, t) ==
    IF CanLocate(t, row_idx, column)
    THEN LET row == t.rows[LabelPos(t, row_idx)]
             all == ContextCols(t, row, column, 1)
         IN [kind |-> "cell", row |-> row_idx, column |-> column,
             value |-> row[ColPos(t, column)],
             context |-> SubSeq(all, 1, IF Len(all) > ContextLimit THEN ContextLimit ELSE Len(all))]
    ELSE [kind |-> "position", row |-> row_idx, column |-> column]

\* f"... and {n} more rows"
MoreRows(n) == [kind |-> "more", n |-> n]

\* row_indices[:n]
Prefix(s, n) == SubSeq(s, 1, IF Len(s) > n THEN n ELSE Len(s))

CiteEach(indices, metric, t) ==
    [k \in 1..Len(indices) |-> _create_citation(indices[k], metric, t)]

\* a > b on means, as floats compare: false when either is NaN
MeanGT(a, b) == ~IsNaN(a) /\ ~IsNaN(b) /\ a.sum * b.n > b.sum * a.n

RECURSIVE PyArgMax(_, _, _)
\* values.index(max(values)): max keeps the first element unless a later one is greater
PyArgMax(values, best, k) ==
    IF k > Len(values) THEN best
    ELSE PyArgMax(values, IF MeanGT(values[k], values[best]) THEN k ELSE best, k + 1)

RECURSIVE PyArgMin(_, _, _)
\* values.index(min(values))
PyArgMin(values, best, k) ==
    IF k > Len(values) THEN best
    ELSE PyArgMin(values, IF MeanGT(values[best], values[k]) THEN k ELSE best, k + 1)

_generate_comparison_answer(data, t) ==
    LET values == [k \in 1..Len(data) |-> data[k].value]
        items == [k \in 1..Len(data) |->
                     [template |-> "comparison_item", entity |-> data[k].entity,
                      value |-> data[k].value, metric |-> data[k].metric, count |-> data[k].count]]
        summary == IF Len(data) >= 2
                   THEN << [template |-> "comparison_summary",
                            highest |-> data[PyArgMax(values, 1, 2)].entity,
                            lowest |-> data[PyArgMin(values, 1, 2)].entity] >>
                   ELSE <<>>
    IN [answer |-> <<[template |-> "comparison_header"]>> \o items \o summary,
        citations |-> [k \in 1..Len(data) |-> _create_citation(data[k].row_index, data[k].metric, t)]]

\* the body shared by _generate_maximum_answer and _generate_minimum_answer
GenerateExtremumAnswer(data, t, template) ==
    LET item == data[1]
    IN [answer |-> << [template |-> template, metric |-> item.metric, value |-> item.value,
                       entity_info |-> item.entity_info] >>,
        citations |-> << _create_citation(item.row_index, item.metric, t) >>]

_generate_maximum_answer(data, t) == GenerateExtremumAnswer(data, t, "maximum")
_generate_minimum_answer(data, t) == GenerateExtremumAnswer(data, t, "minimum")

\* SampleCitations whose summary entry counts every row, not the rows beyond the sample
SampleCitations_count_all(item, t) ==
    LET row_indices == item.row_indices
        sample_indices == IF Len(row_indices) > CitationSampleSize
                          THEN Prefix(row_indices, CitationSampleSize) ELSE row_indices
    IN CiteEach(sample_indices, item.metric, t)
         \o (IF Len(row_indices) > CitationSampleSize
             THEN <<MoreRows(Len(row_indices))>> ELSE <<>>)

\* the citations of one item of _generate_average_answer / _generate_sum_answer
SampleCitations(item, t) ==
    LET row_indices == item.row_indices
        sample_indices == IF Len(row_indices) > CitationSampleSize
                          THEN Prefix(row_indices, CitationSampleSize) ELSE row_indices
    IN CiteEach(sample_indices, item.metric, t)
         \o (IF Len(row_indices) > CitationSampleSize
             THEN <<MoreRows(Len(row_indices) - CitationSampleSize)>> ELSE <<>>)

_generate_average_answer(data, t) ==
    [answer |-> [k \in 1..Len(data) |->
                    [template |-> "average", metric |-> data[k].metric,
                     value |-> data[k].value, count |-> data[k].count]],
     citations |-> Flatten([k \in 1..Len(data) |-> SampleCitations(data[k], t)])]

_generate_sum_answer(data, t) ==
    [answer |-> [k \in 1..Len(data) |->
                    [template |-> "sum", metric |-> data[k].metric,
                     value |-> data[k].value, count |-> data[k].count]],
     citations |-> Flatten([k \in 1..Len(data) |-> SampleCitations(data[k], t)])]

RECURSIVE SortByYear(_)
\* sorted(data, key=lambda x: x['year']): stable, ascending
SortByYear(data) ==
    IF data = <<>> THEN <<>>
    ELSE LET i == CHOOSE j \in 1..Len(data) :
                     /\ \A k \in 1..Len(data) : data[j].year <= data[k].year
                     /\ \A k \in 1..(j - 1) : data[k].year # data[j].year
             rest == [k \in 1..(Len(data) - 1) |-> IF k < i THEN data[k] ELSE data[k + 1]]
         IN <<data[i]>> \o SortByYear(rest)

\* change = last_value - first_value as the fraction num/den (den > 0), NaN when either is NaN
Change(first, last) ==
    [num |-> last.sum * first.n - first.sum * last.n, den |-> last.n * first.n]

\* the "Overall Trend" sentence of _generate_trend_answer
TrendSummary(sorted_data) ==
    LET first_value == sorted_data[1].value
        last_value == sorted_data[Len(sorted_data)].value
        change == Change(first_value, last_value)
        nan == IsNaN(first_value) \/ IsNaN(last_value)
    IN [template |-> "trend_summary",
        metric |-> sorted_data[1].metric,
        trend_word |-> IF ~nan /\ change.num > 0 THEN "increased" ELSE "decreased",
        \* abs(change / first_value * 100) as the fraction num/den, 0 when first_value is 0
        \* NaN != 0 holds, so a first value that is NaN takes the division
        percent_change |->
            IF ~IsNaN(first_value) /\ first_value.sum = 0
            THEN [nan |-> FALSE, num |-> 0, den |-> 1]
            ELSE IF nan THEN [nan |-> TRUE, num |-> 0, den |-> 0]
            ELSE [nan |-> FALSE,
                  num |-> (IF change.num < 0 THEN -change.num ELSE change.num) * 100,
                  den |-> (IF first_value.sum < 0 THEN -first_value.sum ELSE first_value.sum)
                            * last_value.n]]

_generate_trend_answer(data, t) ==
    LET sorted_data == SortByYear(data)
        lines == [k \in 1..Len(sorted_data) |->
                     [template |-> "trend_item", year |-> sorted_data[k].year,
                      value |-> sorted_data[k].value, metric |-> sorted_data[k].metric]]
        cites == [k \in 1..Len(sorted_data) |->
                     IF sorted_data[k].row_indices # <<>>
                     THEN <<_create_citation(sorted_data[k].row_indices[1], sorted_data[k].metric, t)>>
                     ELSE <<>>]
    IN [answer |-> <<[template |-> "trend_header"]>> \o lines
                     \o (IF Len(sorted_data) >= 2 THEN <<TrendSummary(sorted_data)>> ELSE <<>>),
        citations |-> Flatten(cites)]

_generate_count_answer(data, t) ==
    [answer |-> << [template |-> "count", count |-> data[1].count] >>,
     citations |-> <<>>]

_generate_general_answer(data, t) ==
    [answer |-> <<[template |-> "general_header"]>> \o
                [k \in 1..Len(data) |->
                    [template |-> "general_item", metric |-> data[k].metric,
                     mean |-> data[k].mean, min |-> data[k].min, max |-> data[k].max,
                     count |-> data[k].count]],
     citations |-> Flatten([k \in 1..Len(data) |->
                     CiteEach(Prefix(data[k].row_indices, CitationSampleSize), data[k].metric, t)])]

\* generate_answer taking a bundle of a single item for a bundle without data
generate_answer_short(q, pq, res, t) ==
    LET result_type == res.type
        data == res.data
    IN IF Len(data) <= 1
       THEN [answer |-> << [template |-> "insufficient_data", text |-> InsufficientDataMessage] >>,
             citations |-> <<>>]
       ELSE IF result_type = "comparison" THEN _generate_comparison_answer(data, t)
       ELSE IF result_type = "average" THEN _generate_average_answer(data, t)
       ELSE IF result_type = "sum" THEN _generate_sum_answer(data, t)
       ELSE IF result_type = "trend" THEN _generate_trend_answer(data, t)
       ELSE _generate_general_answer(data, t)

generate_answer(q, pq, res, t) ==
    LET result_type == res.type
        data == res.data
    IN IF data = <<>>
       THEN [answer |-> << [template |-> "insufficient_data", text |-> InsufficientDataMessage] >>,
             citations |-> <<>>]
       ELSE IF result_type = "comparison" THEN _generate_comparison_answer(data, t)
       ELSE IF result_type = "maximum" THEN _generate_maximum_answer(data, t)
       ELSE IF result_type = "minimum" THEN _generate_minimum_answer(data, t)
       ELSE IF result_type = "average" THEN _generate_average_answer(data, t)
       ELSE IF result_type = "sum" THEN _generate_sum_answer(data, t)
       ELSE IF result_type = "trend" THEN _generate_trend_answer(data, t)
       ELSE IF result_type = "count" THEN _generate_count_answer(data, t)
       ELSE _generate_general_answer(data, t)

(***************************************************************************)
(* DataLoader (data_loader.py)                                             *)
(*                                                                         *)
(* A file is the frame pd.read_csv returns for it: [columns, dtypes,       *)
(* rows], its rows labelled 0, 1, ... in file order.  The files of the     *)
(* model have clean column names, and the cells of their object columns    *)
(* are text that is not numeric, so _clean_column_name and                 *)
(* _clean_numeric_columns leave them as they are.                          *)
(***************************************************************************)

\* df.dropna(how='all'): the rows with at least one cell that is not null keep their labels
DropEmptyRows(t) ==
    LET keep == [i \in 1..NRows(t) |-> \E k \in 1..Len(t.columns) : NotNa(t.rows[i][k])]
    IN TakeRows(t, SelectPos(keep, 1, NRows(t)))

\* df.dropna(axis=1, how='all')
DropEmptyColumns(t) ==
    LET keep == [k \in 1..Len(t.columns) |-> \E i \in 1..NRows(t) : NotNa(t.rows[i][k])]
        pos == SelectPos(keep, 1, Len(t.columns))
    IN [columns |-> [k \in 1..Len(pos) |-> t.columns[pos[k]]],
        dtypes |-> [k \in 1..Len(pos) |-> t.dtypes[pos[k]]],
        index |-> t.index,
        rows |-> [i \in 1..NRows(t) |-> [k \in 1..Len(pos) |-> t.rows[i][pos[k]]]]]

year_patterns == <<"year", "yr", "years">>

\* a column whose name holds a year pattern becomes Int64
_detect_and_convert_years(t) ==
    [t EXCEPT !.dtypes = [k \in 1..Len(t.columns) |->
        IF AnyIn(year_patterns, Lower(t.columns[k])) THEN "Int64" ELSE t.dtypes[k]]]

load_csv(file) ==
    LET frame == [columns |-> file.columns, dtypes |-> file.dtypes,
                  index |-> [i \in 1..Len(file.rows) |-> i - 1], rows |-> file.rows]
    IN _detect_and_convert_years(DropEmptyColumns(DropEmptyRows(frame)))

(***************************************************************************)
(* Inputs                                                                  *)
(***************************************************************************)

\* the most rows a file holds
MaxRows == 4

\* all sequences over S of length at most n
SeqsUpTo(S, n) == UNION {[1..k -> S] : k \in 0..n}

StateYearColumns == <<"state", "year", "annual_rainfall_mm", "summer_temp">>
StateYearDTypes == <<"object", "float64", "float64", "float64">>
StateYearRows ==
    { << <<"Kerala">>, <<2015>>, <<20>>, <<30>> >>,
      << <<"Goa">>, <<2015>>, <<10>>, Null >>,
      << <<"Goa">>, <<2016>>, Null, <<25>> >> }

\* 'monsoon_rainfall' holds the month keyword 'mon' and is numeric
RegionColumns == <<"region", "monsoon_rainfall">>
RegionDTypes == <<"object", "float64">>
RegionRows ==
    { << <<"North">>, <<5>> >>,
      << Null, Null >> }

DistrictColumns == <<"district", "yr", "month", "rain_mm", "source">>
DistrictDTypes == <<"object", "float64", "object", "float64", "object">>
DistrictRows ==
    { << <<"Pune">>, <<2016>>, <<"May">>, <<3>>, <<"IMD">> >>,
      << <<"Agra">>, Null, <<"June">>, Null, Null >> }

\* 'summer_temp' holds the rainfall keyword 'mm' and the temperature keyword 'temp'
ClimateColumns == <<"region", "monsoon_rainfall", "winter_celsius", "summer_temp">>
ClimateDTypes == <<"object", "float64", "float64", "float64">>

Files ==
    {[columns |-> StateYearColumns, dtypes |-> StateYearDTypes, rows |-> r] :
        r \in SeqsUpTo(StateYearRows, MaxRows)}
    \cup {[columns |-> RegionColumns, dtypes |-> RegionDTypes, rows |-> r] :
        r \in SeqsUpTo(RegionRows, MaxRows)}
    \cup {[columns |-> DistrictColumns, dtypes |-> DistrictDTypes, rows |-> r] :
        r \in SeqsUpTo(DistrictRows, MaxRows)}

IntentPhrases ==
    {"Compare", "Highest", "Lowest", "Average", "Total", "Trend", "Show", "How many", "The"}

Subjects ==
    {" rain",
     " rain Goa Pune",
     " rain 2016",
     " rain 1999",
     " rain in May",
     " Goa 2015-2016",
     " rain Kerala vs Goa",
     " rain Kerala Goa 2015"}

Questions == {i \o s : i \in IntentPhrases, s \in Subjects}

\* the most pieces a question of the parser's specification is made of
MaxWords == 3

IntentWords ==
    {"compare ", "Max ", "lowest ", "mean ", "temp ", "pattern ", "show ", "count ", "rain "}

YearWords == {"2015", " To 2018", "-2018", "~2017", "-2020", " ", "x", "1899"}

ParserQuestions ==
    {Concat(ws) : ws \in SeqsUpTo(IntentWords, MaxWords) \cup SeqsUpTo(YearWords, MaxWords)}

ParserFiles ==
    {[columns |-> StateYearColumns, dtypes |-> StateYearDTypes,
      rows |-> << << <<"Kerala">>, <<2015>>, <<20>>, <<30>> >>,
                  << <<"Goa">>, <<2016>>, Null, <<25>> >> >>],
     [columns |-> ClimateColumns, dtypes |-> ClimateDTypes,
      rows |-> << << <<"North">>, <<5>>, <<18>>, <<31>> >> >>]}

None == [none |-> TRUE]

(***************************************************************************)
(* The pipeline of one question: parse, execute_query, generate_answer     *)
(* (app.py, the question processing block, as three calls)                 *)
(***************************************************************************)

Init ==
    /\ \E file \in Files : df = load_csv(file)
    /\ question \in Questions
    /\ parsed_query = None
    /\ results = None
    /\ answer_data = None
    /\ chat_history = <<>>
    /\ pc = "parse"

Parse ==
    /\ pc = "parse"
    /\ parsed_query' = parse(question, df)
    /\ pc' = "execute"
    /\ UNCHANGED <<df, question, results, answer_data, chat_history>>

Execute ==
    /\ pc = "execute"
    /\ results' = execute_query(df, parsed_query)
    /\ pc' = IF IsRaised(results') THEN "error" ELSE "render"
    /\ UNCHANGED <<df, question, parsed_query, answer_data, chat_history>>

Render ==
    /\ pc = "render"
    /\ answer_data' = generate_answer(question, parsed_query, results, df)
    /\ pc' = "done"
    /\ UNCHANGED <<df, question, parsed_query, results, chat_history>>

Next == Parse \/ Execute \/ Render

Spec == Init /\ [][Next]_vars

(***************************************************************************)
(* Properties of execute_query and generate_answer                         *)
(*                                                                         *)
(* The properties speak of the caller's table by position: the row with    *)
(* zero-based index i of the full table is df.rows[i + 1].                 *)
(***************************************************************************)

\* execute_query has returned a bundle
ResultsReady == pc \in {"render", "done"}

\* the first column whose lowercased name holds one of the keywords, "" when there is none
RoleColumn(keywords) ==
    LET hits == {k \in 1..Len(df.columns) :
                    \E j \in 1..Len(keywords) : Contains(Lower(df.columns[k]), keywords[j])}
    IN IF hits = {} THEN "" ELSE df.columns[CHOOSE k \in hits : \A j \in hits : k <= j]

CellAt(i, c) == df.rows[i + 1][ColPos(df, c)]

FilterOn(k) == k \in DOMAIN parsed_query.filters /\ parsed_query.filters[k] # <<>>

\* the row with full-table index i satisfies every filter of the parsed query;
\* sc, yc, mc are the region, year and month columns ("" when there is none)
RowPassesOn(i, sc, yc, mc) ==
    /\ (FilterOn("states") /\ sc # "")
          => /\ NotNa(CellAt(i, sc))
             /\ CellAt(i, sc)[1] \in Range(parsed_query.filters["states"])
    /\ (FilterOn("years") /\ yc # "")
          => /\ NotNa(CellAt(i, yc))
             /\ CellAt(i, yc)[1] \in Range(parsed_query.filters["years"])
    /\ (FilterOn("months") /\ mc # "")
          => /\ NotNa(CellAt(i, mc))
             /\ Lower(CellAt(i, mc)[1])
                   \in {Lower(m) : m \in Range(parsed_query.filters["months"])}

\* the full-table indices of the rows that pass the filters, ascending
PassingIndices ==
    LET n == NRows(df)
        sc == RoleColumn(state_keywords)
        yc == RoleColumn(year_keywords)
        mc == RoleColumn(month_keywords)
        pos == SelectPos([i \in 1..n |-> RowPassesOn(i - 1, sc, yc, mc)], 1, n)
    IN [k \in 1..Len(pos) |-> pos[k] - 1]

HasField(item, f) == f \in DOMAIN item

\* every row index an item carries
ItemIndices(item) ==
    IF HasField(item, "row_indices") THEN Range(item.row_indices) ELSE {item.row_index}

\* the item's index i names a row that holds what the item reports;
\* passing is PassingIndices
IndexAnchored(type, item, i, passing) ==
    IF type \in {"maximum", "minimum"} THEN CellAt(i, item.metric) = <<item.value>>
    ELSE IF type = "comparison" THEN CellAt(i, RoleColumn(state_keywords)) = <<item.entity>>
    ELSE IF type = "trend" THEN CellAt(i, RoleColumn(year_keywords)) = <<item.year>>
    ELSE item.row_indices = passing

\* C1: every row index of every result item is the zero-based index of a row
\* of the full table: it lies in 0..n-1, the row it names there passed the
\* filters, and that row holds what the item reports (the extremum cell, the
\* compared region, the trend year; for the other intents the indices are
\* exactly the full-table indices of the rows that passed).
C1_RowIndexStability ==
    ResultsReady =>
        LET passing == PassingIndices
        IN \A k \in 1..Len(results.data) :
               \A i \in ItemIndices(results.data[k]) :
                   /\ i \in 0..(NRows(df) - 1)
                   /\ i \in Range(passing)
                   /\ IndexAnchored(results.type, results.data[k], i, passing)

\* C1 witness: a single row_index that is larger than any position of the filtered subset
C1_Witness ==
    /\ ResultsReady
    /\ \E k \in 1..Len(results.data) :
          /\ HasField(results.data[k], "row_index")
          /\ results.data[k].row_index >= Len(PassingIndices)

InsufficientAnswer ==
    [answer |-> << [template |-> "insufficient_data", text |-> InsufficientDataMessage] >>,
     citations |-> <<>>]

\* C2: when no row passes the filters, the bundle has no data, whatever the
\* intent, and the answer is the fixed insufficient-data message with no citation.
C2_EmptyResultContract ==
    (ResultsReady /\ PassingIndices = <<>>) =>
        /\ results.data = <<>>
        /\ pc = "done" => answer_data = InsufficientAnswer

\* C3: parse -> execute_query -> generate_answer never raises.
C3_NeverRaises == pc # "error"

RECURSIVE SumAt(_, _)
\* the sum of the cells of column c that are not null, over the full-table indices idx
SumAt(idx, c) ==
    IF idx = <<>> THEN 0
    ELSE (IF NotNa(CellAt(Head(idx), c)) THEN CellAt(Head(idx), c)[1] ELSE 0) + SumAt(Tail(idx), c)

\* C4: an average item's value is the sum of the metric over its row_indices
\* divided by its count: value = sum / count, that is value.sum * count = sum * value.n.
C4_AverageIdentity ==
    (ResultsReady /\ results.type = "average") =>
        \A k \in 1..Len(results.data) :
            LET item == results.data[k]
            IN /\ ~IsNaN(item.value)
               /\ item.value.sum * item.count = SumAt(item.row_indices, item.metric) * item.value.n

\* the candidate metrics that are numeric columns of the table, in candidate order
NumericCandidates ==
    LET Num(m) == HasCol(df, m) /\ DType(df, m) # "object"
    IN SelectSeq(parsed_query.metrics, Num)

\* what C5 says of every emitted item
SumItemsRight ==
    LET passing == PassingIndices
    IN \A k \in 1..Len(results.data) :
           LET item == results.data[k]
           IN /\ item.value = SumAt(item.row_indices, item.metric)
              /\ item.row_indices = passing
              /\ item.count = Len(item.row_indices)

\* one item per numeric candidate metric, in candidate order
OneItemPerMetric ==
    /\ Len(results.data) = Len(NumericCandidates)
    /\ \A k \in 1..Len(results.data) : results.data[k].metric = NumericCandidates[k]

\* C5 as stated: the items are right, and there is one per numeric candidate
\* metric whatever the filtered rows are.
C5_SumAsStated ==
    (ResultsReady /\ results.type = "sum") => (SumItemsRight /\ OneItemPerMetric)

\* C5 (amended): for the sum intent each item's value is the sum of the metric
\* at exactly its row_indices, row_indices are the passing rows in row order,
\* count is their number, and there is one item per numeric candidate metric
\* when at least one row passes the filters, and no item when none passes.
C5_SumIdentity ==
    (ResultsReady /\ results.type = "sum") =>
        /\ SumItemsRight
        /\ IF PassingIndices = <<>> THEN results.data = <<>> ELSE OneItemPerMetric

\* C5 witness: a sum over a strict subset of the rows, with two items and a null cell among the rows
C5_Witness ==
    /\ ResultsReady /\ results.type = "sum"
    /\ Len(results.data) >= 2
    /\ Len(results.data[1].row_indices) \in 2..(NRows(df) - 1)
    /\ \E i \in Range(results.data[1].row_indices) : IsNull(CellAt(i, results.data[1].metric))
    /\ results.data[1].value > 0

\* what a citation points at: a row index, or the count of a summary entry
CitationShape(c) ==
    IF c.kind = "more" THEN [kind |-> "more", n |-> c.n] ELSE [kind |-> "row", n |-> c.row]

CitationShapes == [k \in 1..Len(answer_data.citations) |-> CitationShape(answer_data.citations[k])]

RowShapes(idx) == [k \in 1..Len(idx) |-> [kind |-> "row", n |-> idx[k]]]

\* the citations the truncation policy gives an item: with more than 3 indices
\* the first 3 and one summary entry counting the rest, else every index
TruncatedShapes(item) ==
    IF Len(item.row_indices) > 3
    THEN RowShapes(SubSeq(item.row_indices, 1, 3))
           \o <<[kind |-> "more", n |-> Len(item.row_indices) - 3]>>
    ELSE RowShapes(item.row_indices)

\* general items: the first at most 3 indices and no summary entry
GeneralShapes(item) ==
    RowShapes(SubSeq(item.row_indices, 1, IF Len(item.row_indices) > 3 THEN 3 ELSE Len(item.row_indices)))

\* trend items: the first index of the year only
TrendShapes(item) == RowShapes(SubSeq(item.row_indices, 1, 1))

\* C6 as stated: the truncation policy holds for the items of average, sum,
\* general and trend answers alike.
C6_TruncationAsStated ==
    (pc = "done" /\ results.type \in {"average", "sum", "general", "trend"}) =>
        CitationShapes = Flatten([k \in 1..Len(results.data) |-> TruncatedShapes(results.data[k])])

\* C6 (amended): an average or sum item with more than 3 row indices gets
\* exactly 3 citations, for its first 3 indices, and one summary entry
\* '... and N more rows' with N = count - 3, and with 3 or fewer indices one
\* citation per index and no summary; a general item gets citations for its
\* first at most 3 indices and never a summary entry; a trend item gets one
\* citation, for its first row index.
C6_CitationTruncation ==
    (pc = "done" /\ results.type \in {"average", "sum", "general", "trend"}) =>
        CitationShapes = Flatten([k \in 1..Len(results.data) |->
            IF results.type \in {"average", "sum"} THEN TruncatedShapes(results.data[k])
            ELSE IF results.type = "general" THEN GeneralShapes(results.data[k])
            ELSE TrendShapes(results.data[k])])

\* C6 witness: an average or sum answer for an item with more than 3 contributing rows
C6_Witness ==
    /\ pc = "done" /\ results.type \in {"average", "sum"}
    /\ \E k \in 1..Len(results.data) : Len(results.data[k].row_indices) > 3
    /\ \E k \in 1..Len(answer_data.citations) : answer_data.citations[k].kind = "more"

\* the filters of the parsed query can be evaluated on every row: no month
\* filter meets a month column that holds no text
FiltersApply ==
    ~(FilterOn("months") /\ RoleColumn(month_keywords) # ""
        /\ DType(df, RoleColumn(month_keywords)) # "object")

\* the values of column c that are not null, at the full-table indices idx
ValuesAt(idx, c) == {CellAt(i, c)[1] : i \in {j \in Range(idx) : NotNa(CellAt(j, c))}}

\* C7: for the maximum (minimum) intent on a non-empty filtered table there is
\* exactly one item; its value is the largest (smallest) value of the first
\* candidate metric among the filtered rows, its row_index the first filtered
\* row holding that value, and its entity_info state/year are that row's.
C7_ExtremumItem ==
    (/\ pc \in {"render", "done", "error"}
     /\ parsed_query.intent \in {"maximum", "minimum"}
     /\ parsed_query.metrics # <<>>
     /\ FiltersApply
     /\ PassingIndices # <<>>) =>
        /\ pc # "error"
        /\ Len(results.data) = 1
        /\ LET item == results.data[1]
               m == parsed_query.metrics[1]
               passing == PassingIndices
               vals == ValuesAt(passing, m)
               sc == RoleColumn(state_keywords)
               yc == RoleColumn(year_keywords)
           IN /\ item.metric = m
              /\ item.value \in vals
              /\ \A v \in vals : IF parsed_query.intent = "maximum"
                                 THEN v <= item.value ELSE item.value <= v
              /\ item.row_index \in Range(passing)
              /\ CellAt(item.row_index, m) = <<item.value>>
              /\ \A i \in Range(passing) :
                    CellAt(i, m) = <<item.value>> => item.row_index <= i
              /\ sc # "" => item.entity_info["state"] = CellAt(item.row_index, sc)
              /\ yc # "" => item.entity_info["year"] = CellAt(item.row_index, yc)

(***************************************************************************)
(* The parser on its own questions                                         *)
(***************************************************************************)

InitParser ==
    /\ \E file \in ParserFiles : df = load_csv(file)
    /\ question \in ParserQuestions
    /\ parsed_query = None
    /\ results = None
    /\ answer_data = None
    /\ chat_history = <<>>
    /\ pc = "parse"

SpecParser == InitParser /\ [][Next]_vars

Parsed == pc # "parse"

\* the priority order of the intents
IntentOrder == <<"compare", "maximum", "minimum", "average", "sum", "trend", "list", "count">>

\* the trigger phrases the parser holds for an intent
Triggers(intent) ==
    intent_patterns[CHOOSE k \in 1..Len(intent_patterns) : intent_patterns[k].intent = intent].patterns

\* the places in IntentOrder of the intents with a trigger phrase in the lowercased question
IntentHits ==
    LET q == Lower(question)
    IN {k \in 1..Len(IntentOrder) :
           \E j \in 1..Len(Triggers(IntentOrder[k])) : Contains(q, Triggers(IntentOrder[k])[j])}

\* C8: the intent is the first one, in the order compare > maximum > minimum >
\* average > sum > trend > list > count, that has a trigger phrase occurring
\* in the lowercased question, and 'query' when no trigger phrase occurs.
C8_FirstIntentWins ==
    Parsed =>
        LET hits == IntentHits
        IN IF hits = {} THEN parsed_query.intent = "query"
           ELSE parsed_query.intent = IntentOrder[CHOOSE k \in hits : \A j \in hits : k <= j]

\* C8 witness: trigger phrases of several intents occur, and the intent found is not the last of them
C8_Witness ==
    /\ Parsed
    /\ Cardinality(IntentHits) >= 2
    /\ parsed_query.intent \in {"maximum", "minimum", "average", "sum", "trend", "list"}

\* C9 as stated: the intent parse returns is one of compare, maximum, minimum,
\* average, sum, trend, count, or the generic intent.
C9_ClosedSetAsStated ==
    Parsed => parsed_query.intent \in
        {"compare", "maximum", "minimum", "average", "sum", "trend", "count", "query"}

\* C9 (amended): parse returns for every table and question, and the intent
\* it returns is one of compare, maximum, minimum, average, sum, trend, list,
\* count, or the generic intent 'query'.
C9_IntentClosedSet ==
    Parsed => parsed_query.intent \in
        {"compare", "maximum", "minimum", "average", "sum", "trend", "list", "count", "query"}

\* C9 witness: a question parsed to the intent 'list'
C9_Witness == Parsed /\ parsed_query.intent = "list"

\* the years written as whole-word tokens in q
TokenYears(q) == {StrToInt(SubSeq(q, i, i + 3)) : i \in {j \in 1..Len(q) : YearMatchAt(q, j)}}

\* the places of q where a range 'YYYY to YYYY', 'YYYY-YYYY' or 'YYYY~YYYY' stands
RangeStarts(q) == {i \in 1..Len(q) : RangeMatchEnd(q, i) # 0}

\* the years start..end of the range that stands at i
RangeYears(q, i) ==
    StrToInt(SubSeq(q, i, i + 3))
        .. StrToInt(SubSeq(q, RangeMatchEnd(q, i) - 4, RangeMatchEnd(q, i) - 1))

StrictlyAscending(s) == \A k \in 1..(Len(s) - 1) : s[k] < s[k + 1]

RECURSIVE Expanded(_, _)
\* the range at i is expanded: no expanded range that starts before i reaches over i
Expanded(q, i) ==
    /\ RangeMatchEnd(q, i) # 0
    /\ \A j \in 1..(i - 1) : RangeMatchEnd(q, j) > i => ~Expanded(q, j)

C11_EmptyBundleMessage ==
    pc = "done" =>
        IF results.data = <<>>
        THEN answer_data = InsufficientAnswer
        ELSE /\ answer_data.answer # InsufficientAnswer.answer
             /\ \A k \in 1..Len(answer_data.answer) :
                    answer_data.answer[k].template # "insufficient_data"

\* C11 witness: a trend bundle without data answered by the fixed message
C11_Witness ==
    /\ pc = "done"
    /\ results.type = "trend"
    /\ results.data = <<>>
    /\ answer_data = InsufficientAnswer

\* C12: every item execute_query returns carries at least one row index, a
\* single row_index or a row_indices sequence that is not empty.
C12_ItemsJustified ==
    ResultsReady =>
        \A k \in 1..Len(results.data) :
            \/ HasField(results.data[k], "row_index")
            \/ /\ HasField(results.data[k], "row_indices")
               /\ results.data[k].row_indices # <<>>

\* C13: the table load_csv returns has the row index 0, 1, ..., n-1.
C13_ContiguousIndex == df.index = [i \in 1..NRows(df) |-> i - 1]

\* the rows of the analyzer's table selected by the region filter <<s>> alone
RegionSelection(s) == _apply_filters(DataAnalyzer(df), [states |-> <<s>>])

\* C14: parse takes the region entities from the column on which the
\* analyzer applies the region filter, the first column whose name holds
\* state/region/district/area/location; every region value parse puts into
\* the filters, applied as the only filter, selects at least one row, and
\* every row it selects holds that value.
C14_SameRegionColumn ==
    pc # "parse" =>
        /\ _find_columns_by_keywords(df, state_keywords) = _find_state_columns(DataAnalyzer(df))
        /\ _find_state_columns(DataAnalyzer(df)) # <<>> =>
               _find_state_columns(DataAnalyzer(df))[1] = RoleColumn(state_keywords)
        /\ FilterOn("states") =>
               \A k \in 1..Len(parsed_query.filters["states"]) :
                   LET s == parsed_query.filters["states"][k]
                       sel == RegionSelection(s)
                   IN /\ ~IsRaised(sel)
                      /\ NRows(sel) >= 1
                      /\ \A i \in 1..NRows(sel) :
                             CellAt(sel.index[i], RoleColumn(state_keywords)) = <<s>>

\* C14 witness: two regions taken from the question, each selecting some rows and not all
C14_Witness ==
    /\ pc # "parse"
    /\ FilterOn("states")
    /\ Len(parsed_query.filters["states"]) = 2
    /\ \A k \in 1..2 :
           /\ ~IsRaised(RegionSelection(parsed_query.filters["states"][k]))
           /\ NRows(RegionSelection(parsed_query.filters["states"][k])) \in 1..(NRows(df) - 1)

(***************************************************************************)
(* The candidate metrics                                                   *)
(***************************************************************************)

\* the columns of the table that hold numbers, in column order
NumericColumns ==
    LET Num(c) == DType(df, c) # "object"
    IN SelectSeq(df.columns, Num)

\* a word of the sequence words occurs in s
HoldsOneOf(s, words) == \E k \in 1..Len(words) : Contains(s, words[k])

\* the numeric columns selected by one of the three rules, each rule on its own
SelectedByRule ==
    LET q == Lower(question)
        Sel(c) == \/ Contains(q, Lower(c))
                  \/ HoldsOneOf(Lower(c), rainfall_keywords) /\ HoldsOneOf(q, rainfall_keywords)
                  \/ HoldsOneOf(Lower(c), temperature_keywords) /\ HoldsOneOf(q, temperature_keywords)
    IN SelectSeq(NumericColumns, Sel)

\* C15: the candidate metrics are the numeric columns whose name occurs in
\* the question, or holds a rainfall keyword while the question holds one, or
\* holds a temperature keyword while the question holds one; all numeric
\* columns when no column is selected.  A column whose name holds keywords of
\* both kinds is selected by a question that holds a temperature keyword only.
C15_MetricsSelected ==
    Parsed =>
        parsed_query.metrics = (IF SelectedByRule = <<>> THEN NumericColumns ELSE SelectedByRule)

(***************************************************************************)
(* The filters, the comparison, the trend                                  *)
(***************************************************************************)

\* the filters of the parsed query without its seasons
WithoutSeasons ==
    [k \in DOMAIN parsed_query.filters \ {"seasons"} |-> parsed_query.filters[k]]

\* C16: _apply_filters returns exactly the rows, in row order, that satisfy
\* every filter dimension present (region, year, lowercased month); a
\* dimension that is absent or empty, or has no role column in the table,
\* leaves the rows as they are, and the seasons never change the rows.
C16_FiltersConjunction ==
    pc \in {"render", "done", "error"} =>
        LET filtered_df == _apply_filters(DataAnalyzer(df), parsed_query.filters)
            passing == PassingIndices
        IN /\ ~IsRaised(filtered_df)
           /\ filtered_df.index = passing
           /\ filtered_df.rows = [k \in 1..Len(passing) |-> df.rows[passing[k] + 1]]
           /\ filtered_df.columns = df.columns
           /\ _apply_filters(DataAnalyzer(df), WithoutSeasons) = filtered_df

\* the regions the parsed query asks for, in the order of the filter
RequestedRegions == IF FilterOn("states") THEN parsed_query.filters["states"] ELSE <<>>

\* the full-table indices, ascending, of the passing rows whose cell of column c holds v
PassingWith(passing, c, v) ==
    LET Holds(i) == CellAt(i, c) = <<v>>
    IN SelectSeq(passing, Holds)

\* the mean of the cells of column c that are not null, at the full-table indices idx
MeanAt(idx, c) ==
    [sum |-> SumAt(idx, c),
     n |-> Cardinality({k \in 1..Len(idx) : NotNa(CellAt(idx[k], c))})]

\* C17: for the compare intent there is exactly one item for each requested
\* region with at least one row in the filtered table, in the order of the
\* requested regions, and none for another region; an item's value is the
\* mean of the first candidate metric over the region's filtered rows, its
\* count the number of those rows, its row_index the full-table index of the
\* first of them.
C17_CompareItems ==
    (/\ pc \in {"render", "done", "error"}
     /\ parsed_query.intent = "compare"
     /\ parsed_query.metrics # <<>>
     /\ FiltersApply) =>
        /\ pc # "error"
        /\ LET passing == PassingIndices
               sc == RoleColumn(state_keywords)
               m == parsed_query.metrics[1]
               HasRows(s) == sc # "" /\ PassingWith(passing, sc, s) # <<>>
               present == SelectSeq(RequestedRegions, HasRows)
           IN /\ Len(results.data) = Len(present)
              /\ \A k \in 1..Len(present) :
                    LET item == results.data[k]
                        rows == PassingWith(passing, sc, present[k])
                    IN /\ item.entity = present[k]
                       /\ item.metric = m
                       /\ item.value = MeanAt(rows, m)
                       /\ item.count = Len(rows)
                       /\ item.row_index = rows[1]

\* C17 witness: a requested region without a row in the filtered table, and an
\* item for a region with several rows, the first of them not the first row of the table
C17_Witness ==
    /\ ResultsReady
    /\ results.type = "comparison"
    /\ Len(results.data) < Len(RequestedRegions)
    /\ \E k \in 1..Len(results.data) :
           /\ results.data[k].count >= 2
           /\ results.data[k].row_index >= 1
           /\ ~IsNaN(results.data[k].value)

\* the year values, not null, of the rows at the full-table indices idx
YearsAt(idx, yc) == ValuesAt(idx, yc)

\* C18: for the trend intent, with a year column and a filtered table that is
\* not empty, there is exactly one item per distinct year value, not null,
\* among the filtered rows; an item's row_indices are exactly the full-table
\* indices of the filtered rows of that year, its value the mean of the first
\* candidate metric over them, and the row_indices of two items are disjoint.
C18_TrendItems ==
    (/\ pc \in {"render", "done", "error"}
     /\ parsed_query.intent = "trend"
     /\ parsed_query.metrics # <<>>
     /\ RoleColumn(year_keywords) # ""
     /\ FiltersApply
     /\ PassingIndices # <<>>) =>
        /\ pc # "error"
        /\ LET passing == PassingIndices
               yc == RoleColumn(year_keywords)
               m == parsed_query.metrics[1]
               years == YearsAt(passing, yc)
           IN /\ Len(results.data) = Cardinality(years)
              /\ {results.data[k].year : k \in 1..Len(results.data)} = years
              /\ \A k \in 1..Len(results.data) :
                    LET item == results.data[k]
                    IN /\ item.metric = m
                       /\ item.row_indices = PassingWith(passing, yc, item.year)
                       /\ item.value = MeanAt(item.row_indices, m)
              /\ \A j, k \in 1..Len(results.data) :
                    j # k => Range(results.data[j].row_indices)
                               \cap Range(results.data[k].row_indices) = {}

(***************************************************************************)
(* Trend questions on tables of several years                              *)
(***************************************************************************)

TrendRows ==
    { << <<"Kerala">>, <<2015>>, <<0>>, <<30>> >>,
      << <<"Kerala">>, <<2015>>, <<20>>, <<30>> >>,
      << <<"Goa">>, <<2016>>, <<20>>, <<25>> >>,
      << <<"Goa">>, <<2016>>, Null, <<25>> >>,
      << <<"Goa">>, <<2017>>, <<10>>, Null >> }

TrendFiles ==
    {[columns |-> StateYearColumns, dtypes |-> StateYearDTypes, rows |-> r] :
        r \in SeqsUpTo(TrendRows, MaxRows)}

TrendQuestions == {"Trend rain", "Change in rain Goa", "Trend rain 2015-2016"}

InitTrend ==
    /\ \E file \in TrendFiles : df = load_csv(file)
    /\ question \in TrendQuestions
    /\ parsed_query = None
    /\ results = None
    /\ answer_data = None
    /\ chat_history = <<>>
    /\ pc = "parse"

SpecTrend == InitTrend /\ [][Next]_vars

\* the trend item of the earliest year, and of the latest
FirstYearItem ==
    results.data[CHOOSE j \in 1..Len(results.data) :
        \A k \in 1..Len(results.data) : results.data[j].year <= results.data[k].year]

LastYearItem ==
    results.data[CHOOSE j \in 1..Len(results.data) :
        \A k \in 1..Len(results.data) : results.data[k].year <= results.data[j].year]

\* the sign of last - first for the means first and last: 1, -1, 0; 2 when one of them is NaN
SignOfChange(first, last) ==
    IF IsNaN(first) \/ IsNaN(last) THEN 2
    ELSE IF last.sum * first.n > first.sum * last.n THEN 1
    ELSE IF last.sum * first.n < first.sum * last.n THEN -1
    ELSE 0

Abs(x) == IF x < 0 THEN -x ELSE x

\* the fraction p.num / p.den is |(last - first) / first * 100|, first not zero
IsPercentChange(p, first, last) ==
    /\ ~p.nan
    /\ p.den > 0
    /\ p.num * (Abs(first.sum) * last.n)
          = Abs(last.sum * first.n - first.sum * last.n) * 100 * p.den

\* the "Overall Trend" sentence of the answer
TrendSentence == answer_data.answer[Len(answer_data.answer)]

\* C19: in a trend answer with at least 2 year items, change is the value of
\* the latest year minus the value of the earliest; the answer says
\* 'increased' only when change > 0 and 'decreased' only when change < 0, and
\* the percent it reports is |change / first value * 100|, 0 when the first
\* value is zero.
C19_TrendDirection ==
    (pc = "done" /\ results.type = "trend" /\ Len(results.data) >= 2) =>
        LET first == FirstYearItem.value
            last == LastYearItem.value
            sign == SignOfChange(first, last)
        IN /\ TrendSentence.template = "trend_summary"
           /\ TrendSentence.trend_word = "increased" => sign = 1
           /\ TrendSentence.trend_word = "decreased" => sign = -1
           /\ IF ~IsNaN(first) /\ first.sum = 0
              THEN ~TrendSentence.percent_change.nan /\ TrendSentence.percent_change.num = 0
              ELSE sign # 2 => IsPercentChange(TrendSentence.percent_change, first, last)

(***************************************************************************)
(* execute_query called with a structured query of the caller's making     *)
(***************************************************************************)

\* the most rows a table handed to the analyzer holds
MaxAnalyzerRows == 2

AnalyzerFiles ==
    {[columns |-> StateYearColumns, dtypes |-> StateYearDTypes, rows |-> r] :
        r \in SeqsUpTo(StateYearRows, MaxAnalyzerRows)}

\* 'rainfall' is no column of the table, 'state' is a column that holds text
RequestedMetrics == {<<"rainfall">>, <<"state">>, <<"annual_rainfall_mm">>}

RequestedFilters ==
    {<<>>, [states |-> <<"Goa">>], [states |-> <<"Kerala", "Goa">>, years |-> <<2015>>]}

Requests ==
    {[intent |-> i, filters |-> f, metrics |-> m] :
        i \in {"compare", "maximum", "minimum", "average", "sum", "trend", "list", "count", "query"},
        f \in RequestedFilters,
        m \in RequestedMetrics}

InitAnalyzer ==
    /\ \E file \in AnalyzerFiles : df = load_csv(file)
    /\ question = ""
    /\ parsed_query \in Requests
    /\ results = None
    /\ answer_data = None
    /\ chat_history = <<>>
    /\ pc = "execute"

NextAnalyzer == Execute \/ Render

SpecAnalyzer == InitAnalyzer /\ [][NextAnalyzer]_vars

\* no requested metric is a column of the table that holds numbers
MetricUnusable ==
    \A k \in 1..Len(parsed_query.metrics) :
        \/ ~HasCol(df, parsed_query.metrics[k])
        \/ DType(df, parsed_query.metrics[k]) = "object"

\* C20: when the requested metric is missing from the table or is not
\* numeric, execute_query does not raise and returns a bundle without data,
\* for every intent that takes a metric (the count intent takes none), the
\* compare intent with requested regions that have rows included.
C20_UnusableMetric ==
    (/\ pc \in {"render", "done", "error"}
     /\ parsed_query.metrics # <<>>
     /\ MetricUnusable
     /\ parsed_query.intent # "count") =>
        /\ pc # "error"
        /\ results.data = <<>>

(***************************************************************************)
(* The citations of an answer                                              *)
(***************************************************************************)

\* the row of the caller's table with the label i exists, and so does the column c
Locatable(i, c) == (\E k \in 1..NRows(df) : df.index[k] = i) /\ HasCol(df, c)

\* the cells of the row labelled i, in column order
RowLabelled(i) == df.rows[CHOOSE k \in 1..NRows(df) : df.index[k] = i]

\* the places, ascending, of the cells of the row labelled i that are not null
\* and stand in a column other than c
ContextPlaces(i, c) ==
    LET row == RowLabelled(i)
        keep == [k \in 1..Len(df.columns) |-> df.columns[k] # c /\ NotNa(row[k])]
    IN SelectPos(keep, 1, Len(df.columns))

\* the context the claim gives the citation of the cell (i, c): the first at
\* most 3 (column, value) pairs of ContextPlaces
ExpectedContext(i, c) ==
    LET places == ContextPlaces(i, c)
        row == RowLabelled(i)
    IN [k \in 1..(IF Len(places) > 3 THEN 3 ELSE Len(places)) |->
           [col |-> df.columns[places[k]], val |-> row[places[k]][1]]]

\* C21: a citation of a row and a column that exist in the table carries the
\* row index, the column name and the cell value, and as context the first at
\* most 3 (column=value) pairs, in column order, of the row's cells that are
\* not null and stand in another column, no context when there is none; a
\* citation of a row or a column that does not exist carries the row index
\* and the column name only, and nothing is raised.
C21_CitationContent ==
    pc = "done" =>
        \A k \in 1..Len(answer_data.citations) :
            LET c == answer_data.citations[k]
            IN c.kind # "more" =>
                 IF Locatable(c.row, c.column)
                 THEN /\ c.kind = "cell"
                      /\ c.value = RowLabelled(c.row)[ColPos(df, c.column)]
                      /\ c.context = ExpectedContext(c.row, c.column)
                 ELSE /\ c.kind = "position"
                      /\ DOMAIN c = {"kind", "row", "column"}

\* C21 witness: a citation whose context holds 3 pairs, of a row with 4 cells to choose from
C21_Witness ==
    /\ pc = "done"
    /\ \E k \in 1..Len(answer_data.citations) :
           /\ answer_data.citations[k].kind = "cell"
           /\ Len(answer_data.citations[k].context) = 3
           /\ Len(ContextPlaces(answer_data.citations[k].row, answer_data.citations[k].column)) = 4

(***************************************************************************)
(* The session of app.py: the uploaded table, the questions asked one      *)
(* after the other, the conversation log                                   *)
(***************************************************************************)

\* the most turns the conversation log holds
MaxTurns == 2

\* a file pd.read_csv cannot read
Unreadable == [unreadable |-> TRUE]

\* files with a row of empty fields before or between the data rows
AppFiles ==
    {[columns |-> RegionColumns, dtypes |-> RegionDTypes, rows |-> r] :
        r \in { << << <<"North">>, <<5>> >>, << <<"South">>, <<7>> >> >>,
                << << <<"North">>, <<5>> >>, << Null, Null >>, << <<"South">>, <<7>> >> >>,
                << << Null, Null >>, << <<"South">>, <<7>> >>, << <<"North">>, <<5>> >> >> }}

\* 'in May' puts a month filter on the numeric column monsoon_rainfall
AppQuestions == {"Highest rain", "Lowest rain", "Compare rain in May"}

InitApp ==
    /\ df = None
    /\ question = ""
    /\ parsed_query = None
    /\ results = None
    /\ answer_data = None
    /\ chat_history = <<>>
    /\ pc = "idle"

\* the sidebar: load_csv of the uploaded file, no table when it raises
Upload ==
    /\ pc = "idle"
    /\ \E file \in AppFiles \cup {Unreadable} :
          df' = IF file = Unreadable THEN None ELSE load_csv(file)
    /\ UNCHANGED <<question, parsed_query, results, answer_data, chat_history, pc>>

\* st.chat_input returns a question while a table is loaded
Ask ==
    /\ pc = "idle"
    /\ df # None
    /\ Len(chat_history) < MaxTurns
    /\ question' \in AppQuestions
    /\ parsed_query' = None
    /\ results' = None
    /\ answer_data' = None
    /\ pc' = "parse"
    /\ UNCHANGED <<df, chat_history>>

\* Save keeping the latest turn only
Save_latest ==
    /\ pc = "done"
    /\ chat_history' = << [question |-> question,
                           answer |-> answer_data.answer,
                           citations |-> answer_data.citations] >>
    /\ pc' = "idle"
    /\ UNCHANGED <<df, question, parsed_query, results, answer_data>>

\* st.session_state.chat_history.append({question, answer, citations})
Save ==
    /\ pc = "done"
    /\ chat_history' = Append(chat_history, [question |-> question,
                                             answer |-> answer_data.answer,
                                             citations |-> answer_data.citations])
    /\ pc' = "idle"
    /\ UNCHANGED <<df, question, parsed_query, results, answer_data>>

\* except Exception: st.error(...), st.info(...)
Fail ==
    /\ pc = "error"
    /\ pc' = "idle"
    /\ UNCHANGED <<df, question, parsed_query, results, answer_data, chat_history>>

NextApp == Upload \/ Ask \/ Parse \/ Execute \/ Render \/ Save \/ Fail

SpecApp == InitApp /\ [][NextApp]_vars

\* the row the analyzer numbers i is the row the caller's table labels i
SameRow(i) == i + 1 <= NRows(df) /\ df.index[i + 1] = i

\* C22: every row index the analyzer reports names, in the table handed to
\* generate_answer, the row the analyzer took the value from; the citation of
\* a maximum or minimum item prints a cell value equal to the item's value.
C22_IndexingsCoincide ==
    /\ ResultsReady =>
          \A k \in 1..Len(results.data) :
              \A i \in ItemIndices(results.data[k]) : SameRow(i)
    /\ (pc = "done" /\ results.type \in {"maximum", "minimum"} /\ results.data # <<>>) =>
          /\ Len(answer_data.citations) = 1
          /\ answer_data.citations[1].kind = "cell"
          /\ answer_data.citations[1].value = <<results.data[1].value>>

\* the turn a completed cycle hands to the log
Turn == [question |-> question, answer |-> answer_data.answer, citations |-> answer_data.citations]

\* C23: the conversation log is append-only: the step that ends a completed
\* parse/execute/render cycle appends exactly one turn {question, answer,
\* citations} at the end of the log, and every other step, the one that ends
\* a cycle that raised included, leaves the log as it is; no turn is ever
\* modified, removed or reordered.
C23_AppendOnly ==
    [][IF pc = "done"
       THEN chat_history' = Append(chat_history, Turn)
       ELSE chat_history' = chat_history]_vars

\* C23 witness: a cycle that raised, with a turn already in the log
C23_Witness ==
    /\ pc = "error"
    /\ Len(chat_history) >= 1
    /\ chat_history[1].question \in AppQuestions

====
